---- MODULE Spec2Model ----
(***************************************************************************)
(* Symbolic expression trees (expressions.py): the Expression class        *)
(* hierarchy, the arithmetic composition operators, the work-list          *)
(* postorder visitor `postvisitor` and the single-dispatch rule table      *)
(* `differentiate`.                                                        *)
(*                                                                         *)
(* Objects live in a heap `nodes`; an object's identity is its index.      *)
(* Results built by `differentiate` are fresh trees that reference the     *)
(* original operands; they are kept as structural terms                    *)
(*   <<kind, payload>> for a Terminal, <<kind, left, right>> for an        *)
(* Operator.                                                               *)
(***************************************************************************)
EXTENDS Integers, Sequences, FiniteSets, TLC

VARIABLES nodes,    \* the heap of constructed Expression objects
          last,     \* the most recent constructor / composition call and its outcome
          pc,       \* "build", "visiting", "done", "raised"
          expr,     \* postvisitor's expr argument (a heap index)
          fn,       \* postvisitor's fn argument: "term", "flaky" or "differentiate"
          var,      \* kwargs["var"] ("" when no keyword argument is passed)
          stack,    \* postvisitor's stack
          visited,  \* postvisitor's visited dict: heap index -> result
          calls,    \* log of fn invocations: the node and the positional results
          result,   \* the value postvisitor returned
          error,    \* the exception that left postvisitor
          direct    \* outcome of differentiate called directly on expr

vars == <<nodes, last, pc, expr, fn, var, stack, visited, calls, result, error,
          direct>>

(***************************** bounds ***************************************)
MaxNodes == 3   \* heap capacity

(************************* Python values ************************************)
Int_(n) == [type |-> "int", n |-> n, s |-> ""]
Str_(s) == [type |-> "str", n |-> 0, s |-> s]
NoneValue == [type |-> "NoneType", n |-> 0, s |-> ""]

Names == {"x"}          \* the names Symbols are built with
Vars == {"x", "y"}      \* the names differentiation is asked for
Literals == {2}
RawValues == {Int_(n) : n \in Literals} \cup {Str_(s) : s \in Names} \cup {NoneValue}

\* isinstance(x, numbers.Number)
NumTypes == {"int", "float", "complex", "bool"}
IsNum(x) == x.type \in NumTypes
\* isinstance(x, str)
IsStr(x) == x.type = "str"

Ref(i) == [type |-> "expr", n |-> i, s |-> ""]
IsExpr(x) == x.type = "expr"

None == <<"None">>
NoError == [exc |-> "", msg |-> ""]
Raise(e, m) == [exc |-> e, msg |-> m]

(************************* the class hierarchy ******************************)
Registered == {"Number", "Symbol", "Add", "Sub", "Mul", "Div", "Pow"}

Obj(kind, value, ops) == [kind |-> kind, value |-> value, operands |-> ops]

operands(h, i) == h[i].operands

\* Expression.__init__(*operands): every numeric operand is wrapped in a new
\* Number object; everything else is kept as the same object.  The result is
\* the heap with the boxes and the new object appended.
RECURSIVE Boxed(_, _)
Boxed(h, xs) ==
    IF xs = <<>> THEN [heap |-> h, ops |-> <<>>]
    ELSE LET x == Head(xs)
             h1 == IF IsNum(x) THEN Append(h, Obj("Number", x, <<>>)) ELSE h
             o == IF IsNum(x) THEN Len(h1) ELSE x.n
             rest == Boxed(h1, Tail(xs))
         IN [heap |-> rest.heap, ops |-> <<o>> \o rest.ops]

Expression(h, kind, xs) ==
    LET b == Boxed(h, xs) IN Append(b.heap, Obj(kind, NoneValue, b.ops))

\* The binary dunder methods of Expression.
OpKind(op) == CASE op = "+" -> "Add" [] op = "-" -> "Sub" [] op = "*" -> "Mul"
                [] op = "/" -> "Div" [] op = "**" -> "Pow"
BinOps == {"+", "-", "*", "/", "**"}

dunder(h, op, self, other) == Expression(h, OpKind(op), <<self, other>>)
rdunder_swapped(h, op, self, other) == Expression(h, OpKind(op), <<self, other>>)
rdunder(h, op, self, other) == Expression(h, OpKind(op), <<other, self>>)

\* Python's evaluation of `a op b`: a's method when a is an Expression, else
\* (a is a number, whose own method gives NotImplemented) b's reflected method.
BinaryOp(h, op, a, b) ==
    IF IsExpr(a) THEN dunder(h, op, a, b) ELSE rdunder(h, op, b, a)

\* Number.__init__ / Symbol.__init__
Number(h, value) ==
    IF IsNum(value) THEN [heap |-> Append(h, Obj("Number", value, <<>>)), err |-> NoError]
    ELSE [heap |-> h, err |-> Raise("TypeError", "")]
Symbol_anything(h, value) ==
    [heap |-> Append(h, Obj("Symbol", value, <<>>)), err |-> NoError]
Symbol(h, value) ==
    IF IsStr(value) THEN [heap |-> Append(h, Obj("Symbol", value, <<>>)), err |-> NoError]
    ELSE [heap |-> h, err |-> Raise("TypeError", "")]

\* The structural form of the tree rooted at heap object i.
RECURSIVE TermOf(_, _)
TermOf(h, i) ==
    IF h[i].operands = <<>> THEN <<h[i].kind, h[i].value>>
    ELSE <<h[i].kind, TermOf(h, h[i].operands[1]), TermOf(h, h[i].operands[2])>>


(************************* differentiate ************************************)
Ok(t) == [exc |-> "", msg |-> "", val |-> t]
Fail(e, m) == [exc |-> e, msg |-> m, val |-> None]

Num(n) == <<"Number", Int_(n)>>
Node(kind, a, b) == <<kind, a, b>>

\* Each rule gets the heap h, the node i, the positional results c and the
\* keyword arguments kw (a function from keyword names to values).
diffNumber(h, i, c, kw) == Ok(Num(0))

diffSymbol(h, i, c, kw) ==
    IF "var" \notin DOMAIN kw
    THEN Fail("TypeError", "missing keyword-only argument var")
    ELSE IF h[i].value = kw["var"] THEN Ok(Num(1)) ELSE Ok(Num(0))

diffAdd(h, i, c, kw) ==
    IF Len(c) < 2 THEN Fail("IndexError", "tuple index out of range")
    ELSE Ok(Node("Add", c[1], c[2]))

diffSub(h, i, c, kw) ==
    IF Len(c) < 2 THEN Fail("IndexError", "tuple index out of range")
    ELSE Ok(Node("Sub", c[1], c[2]))

diffMul_unswapped(h, i, c, kw) ==
    IF Len(c) < 2 THEN Fail("IndexError", "tuple index out of range")
    ELSE Ok(Node("Add", Node("Mul", c[1], TermOf(h, operands(h, i)[1])),
                        Node("Mul", c[2], TermOf(h, operands(h, i)[2]))))
diffMul(h, i, c, kw) ==
    IF Len(c) < 2 THEN Fail("IndexError", "tuple index out of range")
    ELSE Ok(Node("Add", Node("Mul", c[1], TermOf(h, operands(h, i)[2])),
                        Node("Mul", c[2], TermOf(h, operands(h, i)[1]))))

diffDiv(h, i, c, kw) ==
    IF Len(c) < 2 THEN Fail("IndexError", "tuple index out of range")
    ELSE Ok(Node("Div", Node("Sub", Node("Mul", c[1], TermOf(h, operands(h, i)[2])),
                                    Node("Mul", c[2], TermOf(h, operands(h, i)[1]))),
                        Node("Pow", TermOf(h, operands(h, i)[2]), Num(2))))

diffPow_chain(h, i, c, kw) ==
    IF Len(c) < 2 THEN Fail("IndexError", "tuple index out of range")
    ELSE Ok(Node("Mul", Node("Mul", TermOf(h, operands(h, i)[2]),
                   Node("Pow", TermOf(h, operands(h, i)[1]),
                               Node("Sub", TermOf(h, operands(h, i)[2]), Num(1)))), c[1]))
diffPow(h, i, c, kw) ==
    Ok(Node("Mul", TermOf(h, operands(h, i)[2]),
                   Node("Pow", TermOf(h, operands(h, i)[1]),
                               Node("Sub", TermOf(h, operands(h, i)[2]), Num(1)))))

diffDefault_zero(h, i, c, kw) == Ok(Num(0))
diffDefault(h, i, c, kw) ==
    Fail("NotImplementedError", "Cannot differentiate a " \o h[i].kind)

\* functools.singledispatch on type(expr)
differentiate(h, i, c, kw) ==
    CASE h[i].kind = "Number" -> diffNumber(h, i, c, kw)
      [] h[i].kind = "Symbol" -> diffSymbol(h, i, c, kw)
      [] h[i].kind = "Add" -> diffAdd(h, i, c, kw)
      [] h[i].kind = "Sub" -> diffSub(h, i, c, kw)
      [] h[i].kind = "Mul" -> diffMul(h, i, c, kw)
      [] h[i].kind = "Div" -> diffDiv(h, i, c, kw)
      [] h[i].kind = "Pow" -> diffPow(h, i, c, kw)
      [] OTHER -> diffDefault(h, i, c, kw)

\* A caller-supplied combining function: it returns the free term over the
\* node and the results it was handed.  "flaky" is such a function that may
\* also raise, at any invocation.
term(h, i, c, kw) == Ok(<<"fn", i, c>>)

(***************************** postvisitor **********************************)
Fns == {"term", "flaky", "differentiate"}

\* lines 143-146: the operands of current that have no result yet
unvisited_first(h, current, vis) ==
    IF operands(h, current) # <<>> /\ operands(h, current)[1] \notin DOMAIN vis
    THEN <<operands(h, current)[1]>> ELSE <<>>
unvisited(h, current, vis) ==
    SelectSeq(operands(h, current), LAMBDA child : child \notin DOMAIN vis)

\* lines 151-152: [visited[child] for child in current.operands]
child_results_reversed(h, current, vis) ==
    [k \in 1..Len(operands(h, current)) |->
        LET child == operands(h, current)[Len(operands(h, current)) + 1 - k]
        IN IF child \in DOMAIN vis THEN vis[child] ELSE None]
child_results(h, current, vis) ==
    [k \in 1..Len(operands(h, current)) |->
        LET child == operands(h, current)[k]
        IN IF child \in DOMAIN vis THEN vis[child] ELSE None]

\* fn(node, *c, **kw)
Apply(f, h, i, c, kw) ==
    IF f = "differentiate" THEN differentiate(h, i, c, kw) ELSE term(h, i, c, kw)

\* lines 151-153: the call of fn on current (a KeyError when an operand has
\* no entry in visited)
Invoke(h, current, vis, f, kw) ==
    IF \E j \in 1..Len(operands(h, current)) : operands(h, current)[j] \notin DOMAIN vis
    THEN Fail("KeyError", "")
    ELSE Apply(f, h, current, child_results(h, current, vis), kw)

\* line 151: visited[current] = fn(...); the assignment happens only when
\* the call returns
Memoize_partial(vis, current, out, raised) == (current :> out.val) @@ vis
Memoize(vis, current, out, raised) ==
    IF raised THEN vis ELSE (current :> out.val) @@ vis

kwargs == IF var = "" THEN <<>> ELSE [var |-> Str_(var)]
current == stack[Len(stack)]
popped == SubSeq(stack, 1, Len(stack) - 1)

(******************************* actions ************************************)
Call(name, op, a, b, exc) ==
    [call |-> name, op |-> op, a |-> a, b |-> b, exc |-> exc, base |-> Len(nodes)]

Init ==
    /\ nodes = <<>>
    /\ last = [call |-> "", op |-> "", a |-> NoneValue, b |-> NoneValue,
               exc |-> "", base |-> 0]
    /\ pc = "build"
    /\ expr = 0
    /\ fn = ""
    /\ var = ""
    /\ stack = <<>>
    /\ visited = <<>>
    /\ calls = <<>>
    /\ result = None
    /\ error = NoError
    /\ direct = [form |-> "", out |-> Ok(None)]

Idle == UNCHANGED <<pc, expr, fn, var, stack, visited, calls, result, error, direct>>

\* Number(value)
NewNumber ==
    /\ pc = "build" /\ Len(nodes) < MaxNodes
    /\ \E value \in RawValues :
        /\ nodes' = Number(nodes, value).heap
        /\ last' = Call("Number", "", value, NoneValue, Number(nodes, value).err.exc)
    /\ Idle

\* Symbol(value)
NewSymbol ==
    /\ pc = "build" /\ Len(nodes) < MaxNodes
    /\ \E value \in RawValues :
        /\ nodes' = Symbol(nodes, value).heap
        /\ last' = Call("Symbol", "", value, NoneValue, Symbol(nodes, value).err.exc)
    /\ Idle

Operands == {Ref(i) : i \in 1..Len(nodes)} \cup {Int_(n) : n \in Literals}
Cost(a, b) == 1 + (IF IsNum(a) THEN 1 ELSE 0) + (IF IsNum(b) THEN 1 ELSE 0)

\* a op b, where at least one of a, b is an Expression
Compose ==
    /\ pc = "build"
    /\ \E op \in BinOps, a \in Operands, b \in Operands :
        /\ IsExpr(a) \/ IsExpr(b)
        /\ Len(nodes) + Cost(a, b) <= MaxNodes
        /\ nodes' = BinaryOp(nodes, op, a, b)
        /\ last' = Call("binop", op, a, b, "")
    /\ Idle

\* Operator(a, b): the base class, constructed explicitly
NewOperator ==
    /\ pc = "build"
    /\ \E a \in Operands, b \in Operands :
        /\ Len(nodes) + Cost(a, b) <= MaxNodes
        /\ nodes' = Expression(nodes, "Operator", <<a, b>>)
        /\ last' = Call("Operator", "", a, b, "")
    /\ Idle

\* The objects reachable from i through operands.
RECURSIVE Reach(_, _)
Reach(h, i) ==
    {i} \cup UNION {Reach(h, operands(h, i)[k]) : k \in 1..Len(operands(h, i))}

\* The expressions whose graph is the whole heap.
Roots(h) == {i \in 1..Len(h) : Reach(h, i) = 1..Len(h)}

\* postvisitor(expr, fn) or postvisitor(expr, differentiate, var=var): lines
\* 138-140
Start ==
    /\ pc = "build"
    /\ \E e \in Roots(nodes), f \in Fns, v \in Vars \cup {""} :
        /\ f = "differentiate" <=> v # ""
        /\ expr' = e /\ fn' = f /\ var' = v
        /\ stack' = <<e>>
    /\ pc' = "visiting"
    /\ visited' = <<>>
    /\ calls' = <<>>
    /\ last' = Call("postvisitor", "", NoneValue, NoneValue, "")
    /\ UNCHANGED <<nodes, result, error, direct>>

\* one iteration of the loop that finds unvisited operands: lines 142-149
Descend ==
    /\ pc = "visiting" /\ stack # <<>>
    /\ unvisited(nodes, current, visited) # <<>>
    /\ stack' = Append(popped, current) \o unvisited(nodes, current, visited)
    /\ UNCHANGED <<nodes, last, pc, expr, fn, var, visited, calls,
                   result, error, direct>>

\* one iteration of the loop that applies fn, which returns: lines 142-153
Visit ==
    /\ pc = "visiting" /\ stack # <<>>
    /\ unvisited(nodes, current, visited) = <<>>
    /\ LET out == Invoke(nodes, current, visited, fn, kwargs)
       IN /\ out.exc = ""
          /\ visited' = Memoize(visited, current, out, FALSE)
          /\ calls' = Append(calls, [node |-> current,
                                     args |-> child_results(nodes, current, visited)])
    /\ stack' = popped
    /\ UNCHANGED <<nodes, last, pc, expr, fn, var, result, error, direct>>

\* one iteration of the loop in which the call of fn raises: the exception
\* leaves postvisitor
VisitRaises ==
    /\ pc = "visiting" /\ stack # <<>>
    /\ unvisited(nodes, current, visited) = <<>>
    /\ LET out == Invoke(nodes, current, visited, fn, kwargs)
       IN /\ out.exc # "" \/ fn = "flaky"
          /\ error' = IF out.exc # "" THEN [exc |-> out.exc, msg |-> out.msg]
                       ELSE Raise("FnError", "raised by fn")
          /\ calls' = IF out.exc = "KeyError" THEN calls
                      ELSE Append(calls, [node |-> current,
                                          args |-> child_results(nodes, current, visited)])
          /\ visited' = Memoize(visited, current, out, TRUE)
    /\ stack' = popped
    /\ pc' = "raised"
    /\ UNCHANGED <<nodes, last, expr, fn, var, result, direct>>

\* line 154: return visited[expr]
Return ==
    /\ pc = "visiting" /\ stack = <<>>
    /\ IF expr \in DOMAIN visited
       THEN result' = visited[expr] /\ pc' = "done" /\ error' = error
       ELSE result' = result /\ pc' = "raised" /\ error' = Raise("KeyError", "")
    /\ UNCHANGED <<nodes, last, expr, fn, var, stack, visited, calls, direct>>

\* differentiate called directly on expr, with var by keyword or by position
DirectCall ==
    /\ pc \in {"done", "raised"} /\ fn = "differentiate" /\ direct.form = ""
    /\ \E form \in {"keyword", "positional"} :
        direct' = [form |-> form,
                   out |-> IF form = "keyword"
                           THEN differentiate(nodes, expr, <<>>, kwargs)
                           ELSE differentiate(nodes, expr, <<<<"str", Str_(var)>>>>, <<>>)]
    /\ UNCHANGED <<nodes, last, pc, expr, fn, var, stack, visited, calls,
                   result, error>>

Next ==
    \/ NewNumber \/ NewSymbol \/ Compose \/ NewOperator
    \/ Start \/ Descend \/ Visit \/ VisitRaises \/ Return \/ DirectCall

Spec == Init /\ [][Next]_vars

\* postvisitor is sequential code: once started, it takes its next step.
Loop == Descend \/ Visit \/ VisitRaises \/ Return
FairSpec == Spec /\ WF_vars(Loop)

(****************************** properties **********************************)
\* The expression graph of postvisitor's argument.
Graph == Reach(nodes, expr)

\* How often fn was invoked on node n.
Invocations(n) == Cardinality({k \in 1..Len(calls) : calls[k].node = n})

\* The invocations on node n before the k-th invocation.
Earlier(n, k) == {j \in 1..(k - 1) : calls[j].node = n}
Latest(S) == CHOOSE j \in S : \A i \in S : i <= j

AllRegistered == \A n \in Graph : nodes[n].kind \in Registered

\* C1: one call of the visitor invokes fn exactly once for each distinct node
\* reachable from the root, shared nodes included: no node is invoked twice,
\* and a finished traversal has made as many invocations as the graph has
\* distinct nodes.
C1_OncePerNode ==
    /\ \A n \in 1..Len(nodes) : Invocations(n) <= 1
    /\ pc = "done" => Len(calls) = Cardinality(Graph)

\* C2: every invocation fn(node, *results) comes after an invocation of fn on
\* each operand of node, and its positional results are, in operand order, the
\* results of the latest earlier invocations on node.operands.
C2_OperandsFirst ==
    \A k \in 1..Len(calls) :
        LET n == calls[k].node
            ops == operands(nodes, n)
        IN /\ Len(calls[k].args) = Len(ops)
           /\ \A j \in 1..Len(ops) :
                /\ Earlier(ops[j], k) # {}
                /\ LET e == Latest(Earlier(ops[j], k))
                   IN calls[k].args[j] =
                        (IF fn = "differentiate"
                         THEN differentiate(nodes, ops[j], calls[e].args, kwargs).val
                         ELSE <<"fn", ops[j], calls[e].args>>)

C2_Witness ==
    /\ pc = "done"
    /\ \E k \in 1..Len(calls) :
        /\ Len(calls[k].args) = 2
        /\ calls[k].args[1] # calls[k].args[2]

\* The rule table, as a recursion over the tree.
RECURSIVE D(_, _, _)
D(h, i, v) ==
    LET k == h[i].kind
        a == operands(h, i)[1]
        b == operands(h, i)[2]
    IN CASE k = "Number" -> <<"Number", Int_(0)>>
         [] k = "Symbol" -> IF h[i].value = Str_(v) THEN <<"Number", Int_(1)>>
                            ELSE <<"Number", Int_(0)>>
         [] k = "Add" -> <<"Add", D(h, a, v), D(h, b, v)>>
         [] k = "Sub" -> <<"Sub", D(h, a, v), D(h, b, v)>>
         [] k = "Mul" -> <<"Add", <<"Mul", D(h, a, v), TermOf(h, b)>>,
                                  <<"Mul", D(h, b, v), TermOf(h, a)>> >>
         [] k = "Div" -> <<"Div", <<"Sub", <<"Mul", D(h, a, v), TermOf(h, b)>>,
                                           <<"Mul", D(h, b, v), TermOf(h, a)>> >>,
                                  <<"Pow", TermOf(h, b), <<"Number", Int_(2)>> >> >>
         [] k = "Pow" -> <<"Mul", TermOf(h, b),
                                  <<"Pow", TermOf(h, a),
                                           <<"Sub", TermOf(h, b), <<"Number", Int_(1)>> >> >> >>
         [] OTHER -> None

\* C3: on a graph over the seven registered kinds, shared sub-nodes or not,
\* postvisitor(expr, differentiate, var=var) does not raise and returns the
\* tree the rule table defines recursively, with the original operands in it
\* and nothing simplified.
C3_RuleTable ==
    (fn = "differentiate" /\ pc \in {"done", "raised"} /\ AllRegistered)
        => pc = "done" /\ result = D(nodes, expr, var)

C3_Witness ==
    /\ pc = "done" /\ fn = "differentiate"
    /\ nodes[expr].kind \in {"Mul", "Div"}
    /\ \E n \in Graph : Invocations(n) > 1
    /\ \E n \in Graph : nodes[n].kind = "Symbol" /\ nodes[n].value = Str_(var)

\* C4: a OP b builds a new node of the kind of OP whose operands are
\* (box(a), box(b)) in that order: an Expression stays the same object, a raw
\* number becomes a new Number holding it; the reflected form k OP e gives
\* (Number(k), e).
C4_IsBox(x, o) ==
    IF IsExpr(x) THEN o = x.n
    ELSE /\ o > last.base /\ o < Len(nodes)
         /\ nodes[o] = [kind |-> "Number", value |-> x, operands |-> <<>>]

C4_Composition ==
    last.call = "binop" =>
        LET new == nodes[Len(nodes)]
        IN /\ Len(nodes) > last.base
           /\ \/ last.op = "+" /\ new.kind = "Add"
              \/ last.op = "-" /\ new.kind = "Sub"
              \/ last.op = "*" /\ new.kind = "Mul"
              \/ last.op = "/" /\ new.kind = "Div"
              \/ last.op = "**" /\ new.kind = "Pow"
           /\ Len(new.operands) = 2
           /\ C4_IsBox(last.a, new.operands[1])
           /\ C4_IsBox(last.b, new.operands[2])

C4_Witness ==
    /\ last.call = "binop" /\ last.op = "-"
    /\ IsNum(last.a) /\ IsExpr(last.b)
    /\ nodes[last.b.n].kind = "Symbol"

\* C5: when fn raises for a node, the visitor stops there: the exception is
\* the one fn raised, the failed invocation records nothing in the memo table,
\* fn is invoked on no further node and nothing is returned.
C5_RaiseStops ==
    [][/\ (pc = "visiting" /\ pc' = "raised") =>
            /\ visited' = visited
            /\ result' = None
            /\ calls' = Append(calls, calls'[Len(calls')])
            /\ error' = IF fn = "differentiate"
                        THEN [exc |-> "NotImplementedError",
                              msg |-> "Cannot differentiate a "
                                        \o nodes[calls'[Len(calls')].node].kind]
                        ELSE [exc |-> "FnError", msg |-> "raised by fn"]
            /\ (calls'[Len(calls')].node \in DOMAIN visited')
                    => fn = "flaky" /\ Invocations(calls'[Len(calls')].node) > 0
       /\ pc = "raised" =>
            /\ pc' = "raised"
            /\ <<visited, calls, result, error, stack>>' =
                   <<visited, calls, result, error, stack>>]_vars

C5_Witness ==
    /\ pc = "raised" /\ fn = "flaky"
    /\ Len(calls) >= 3
    /\ stack # <<>>
    /\ expr \notin DOMAIN visited

\* C6: differentiating through the visitor a graph that holds a node of an
\* unregistered kind never returns a derivative; the traversal ends in
\* NotImplementedError, raised by the invocation on such a node once its
\* operands have results, with that node's kind in the message.
C6_Unsupported ==
    /\ [](fn = "differentiate" /\ ~AllRegistered =>
            /\ pc # "done"
            /\ result = None
            /\ pc = "raised" =>
                LET n == calls[Len(calls)].node
                IN /\ nodes[n].kind \notin Registered
                   /\ error.exc = "NotImplementedError"
                   /\ error.msg = "Cannot differentiate a " \o nodes[n].kind
                   /\ \A j \in 1..Len(operands(nodes, n)) :
                        operands(nodes, n)[j] \in DOMAIN visited)
    /\ (pc = "visiting" /\ fn = "differentiate" /\ ~AllRegistered) ~> (pc = "raised")

C6_Witness ==
    /\ pc = "raised" /\ fn = "differentiate"
    /\ error.exc = "NotImplementedError"
    /\ nodes[expr].kind \in Registered
    /\ Len(calls) >= 2

\* C7: Number(v) succeeds exactly when v is numeric and Symbol(name) exactly
\* when name is text; otherwise the constructor raises TypeError and no node
\* is produced.  A constructed Terminal has no operands and holds the payload
\* it was given.
C7_Accepts(cls, v) ==
    IF cls = "Number" THEN v.type \in {"int", "float", "complex", "bool"}
    ELSE v.type = "str"

C7_Terminals ==
    /\ last.call \in {"Number", "Symbol"} =>
        IF C7_Accepts(last.call, last.a)
        THEN /\ last.exc = ""
             /\ Len(nodes) = last.base + 1
             /\ nodes[Len(nodes)] =
                    [kind |-> last.call, value |-> last.a, operands |-> <<>>]
        ELSE /\ last.exc = "TypeError"
             /\ Len(nodes) = last.base
    /\ \A i \in 1..Len(nodes) :
        nodes[i].kind \in {"Number", "Symbol"} =>
            /\ nodes[i].operands = <<>>
            /\ C7_Accepts(nodes[i].kind, nodes[i].value)

C7_Witness ==
    /\ last.call = "Symbol" /\ last.a = Int_(2)
    /\ last.exc = "TypeError"
    /\ Len(nodes) = last.base /\ Len(nodes) > 0

\* The fold fn defines over the graph, computed by recursion.
RECURSIVE Fold(_, _, _, _)
Fold(f, h, i, kw) ==
    Apply(f, h, i, [k \in 1..Len(operands(h, i)) |-> Fold(f, h, operands(h, i)[k], kw)],
          kw).val

NonRaising == fn = "term" \/ (fn = "differentiate" /\ AllRegistered)

\* C8: with an fn that does not raise, the loop ends with an empty stack and
\* postvisitor returns fn's result for the root, which is the fold of fn over
\* the graph and so the same for the same graph, fn and keyword arguments.
C8_Terminates ==
    /\ [](pc = "done" => stack = <<>> /\ result = Fold(fn, nodes, expr, kwargs))
    /\ [](NonRaising => pc # "raised")
    /\ (pc = "visiting" /\ NonRaising) ~> (pc = "done")

C8_Witness ==
    /\ pc = "done" /\ fn = "term"
    /\ Len(calls) > Cardinality(Graph)
    /\ \E n \in Graph : \E j \in 1..2 :
            operands(nodes, n) # <<>> /\ operands(nodes, operands(nodes, n)[j]) # <<>>

\* Integer values of trees and the derivative of calculus.
RECURSIVE IPow(_, _)
IPow(b, e) == IF e <= 0 THEN 1 ELSE b * IPow(b, e - 1)

RECURSIVE Eval(_, _)
Eval(t, env) ==
    CASE t[1] = "Number" -> t[2].n
      [] t[1] = "Symbol" -> env[t[2].s]
      [] t[1] = "Add" -> Eval(t[2], env) + Eval(t[3], env)
      [] t[1] = "Sub" -> Eval(t[2], env) - Eval(t[3], env)
      [] t[1] = "Mul" -> Eval(t[2], env) * Eval(t[3], env)
      [] t[1] = "Pow" -> IPow(Eval(t[2], env), Eval(t[3], env))
      [] OTHER -> 0

RECURSIVE Derivative(_, _, _, _)
Derivative(h, i, v, env) ==
    LET k == h[i].kind
        a == operands(h, i)[1]
        b == operands(h, i)[2]
        val(n) == Eval(TermOf(h, n), env)
    IN CASE k = "Number" -> 0
         [] k = "Symbol" -> IF h[i].value.s = v THEN 1 ELSE 0
         [] k = "Add" -> Derivative(h, a, v, env) + Derivative(h, b, v, env)
         [] k = "Sub" -> Derivative(h, a, v, env) - Derivative(h, b, v, env)
         [] k = "Mul" -> Derivative(h, a, v, env) * val(b) + Derivative(h, b, v, env) * val(a)
         [] k = "Pow" -> val(b) * IPow(val(a), val(b) - 1) * Derivative(h, a, v, env)
         [] OTHER -> 0

Points == {2, 3}
Envs == [Names -> Points]

\* Built from Number, Symbol, Add, Sub, Mul and Pow with a literal exponent >= 1.
C9_InScope ==
    \A n \in Graph :
        /\ nodes[n].kind \in {"Number", "Symbol", "Add", "Sub", "Mul", "Pow"}
        /\ nodes[n].kind = "Pow" =>
            /\ nodes[operands(nodes, n)[2]].kind = "Number"
            /\ nodes[operands(nodes, n)[2]].value.n >= 1

\* C9: for an expression over Number, Symbol, Add, Sub, Mul and Pow with a
\* literal exponent >= 1, the tree the visitor returns for differentiate
\* evaluates, at every integer assignment of the symbols, to the derivative
\* of the expression at that assignment.
C9_Calculus ==
    (pc = "done" /\ fn = "differentiate" /\ C9_InScope) =>
        \A env \in Envs : Eval(result, env) = Derivative(nodes, expr, var, env)

====
